---- MODULE Spec2Model ----
(***************************************************************************)
(* State-machine model of src/src/lib.rs: the Action vocabulary, the       *)
(* Device entity with its validated builder setters, take_action and       *)
(* get_and_update_duty_cycle.                                              *)
(*                                                                         *)
(* Option<T> is modelled as a sequence of length at most one: None is <<>> *)
(* and Some(v) is <<v>>.  usize and u32 are modelled as words whose        *)
(* largest values are UsizeMax and U32Max; arithmetic that leaves the word *)
(* panics when the build has overflow checks (debug profile) and wraps     *)
(* when it has not (release profile).  A panic ends the behaviour.         *)
(***************************************************************************)
EXTENDS Integers, Sequences, FiniteSets, TLC

----------------------------------------------------------------------------
(* Bounds of the model *)

\* usize::MAX of the modelled machine word
UsizeMax == 9

\* u32::MAX of the modelled machine word
U32Max == 65535

\* saturation point of the counter of consecutive identical calls
RunCap == 9

----------------------------------------------------------------------------
(* Option<T> *)

None == <<>>

Some(v) == <<v>>

is_some(o) == Len(o) = 1

unwrap(o) == o[1]

----------------------------------------------------------------------------
(* enum Action *)

On == [tag |-> "On", v |-> None]

Off == [tag |-> "Off", v |-> None]

Up(o) == [tag |-> "Up", v |-> o]

Down(o) == [tag |-> "Down", v |-> o]

Min == [tag |-> "Min", v |-> None]

Max == [tag |-> "Max", v |-> None]

Reverse == [tag |-> "Reverse", v |-> None]

Set(n) == [tag |-> "Set", v |-> Some(n)]

same_variant(a, b) == a.tag = b.tag

\* Vec::contains: equality of the whole value (derived PartialEq)
contains(list, a) == \E i \in 1..Len(list) : list[i] = a

----------------------------------------------------------------------------
(* Results of the calls *)

OkRes == "Ok"

Panic == "panic"

ErrNotAvailable == "Action not available for device."

ErrSetTooLarge == "You attempted to set the target, to something larger than the max duty cycle index"

ErrUpPayload == "If Action::Up is an an available_action, it must be set to Action::Up(None)"

ErrDownPayload == "If Action::Down is an an available_action, it must be set to Action::Down(None)"

ErrSetPayload == "If Action::Set is an an available_action, it must be set to Action::Set(0)"

ErrDefaultTarget == "The default_target must not be greater than max_duty_cycle_index"

ErrDutyCyclesTargets == "The default_target and target must not be greater than max_duty_cycle_index"

ErrTarget == "The target must not be greater than max_duty_cycle_index"

ErrSomeAfterNone == "Within the array of duty_cycles, there mustn't be a Some value that follows a None."

----------------------------------------------------------------------------
(* ACTION_SYNONYMS and the conversions of Action.  A &str is a sequence of *)
(* characters; a u128 is the token of its hexadecimal digits.              *)

str_on == <<"o", "n">>

str_off == <<"o", "f", "f">>

str_up == <<"u", "p">>

str_down == <<"d", "o", "w", "n">>

str_minimum == <<"m", "i", "n", "i", "m", "u", "m">>

str_maximum == <<"m", "a", "x", "i", "m", "u", "m">>

str_reverse == <<"r", "e", "v", "e", "r", "s", "e">>

str_set == <<"s", "e", "t">>

str_empty == <<>>

u128_zero == "00000000000000000000000000000000"

\* the table without its Reverse entry
ACTION_SYNONYMS_no_reverse ==
    << [action |-> On, text |-> str_on,
        uuid_number |-> "928e9b929939486b998d69613f89a9a6"],
       [action |-> Off, text |-> str_off,
        uuid_number |-> "13df417d74d2443b87e3de60557b75b8"],
       [action |-> Up(None), text |-> str_up,
        uuid_number |-> "bc6c6eeba0ba40e0a57ff5186d4350ce"],
       [action |-> Down(None), text |-> str_down,
        uuid_number |-> "62865402c86245eea282d4f2ca8fd51b"],
       [action |-> Min, text |-> str_minimum,
        uuid_number |-> "4aad1b26ea9b455190d0d917102b7f36"],
       [action |-> Max, text |-> str_maximum,
        uuid_number |-> "4ffb631fa4ba4fb5a189f7a3bb9dfa01"],
       [action |-> Set(0), text |-> str_set,
        uuid_number |-> "2a4fae8107134e1fa8187ac56e4f13e4"] >>

ACTION_SYNONYMS ==
    << [action |-> On, text |-> str_on,
        uuid_number |-> "928e9b929939486b998d69613f89a9a6"],
       [action |-> Off, text |-> str_off,
        uuid_number |-> "13df417d74d2443b87e3de60557b75b8"],
       [action |-> Up(None), text |-> str_up,
        uuid_number |-> "bc6c6eeba0ba40e0a57ff5186d4350ce"],
       [action |-> Down(None), text |-> str_down,
        uuid_number |-> "62865402c86245eea282d4f2ca8fd51b"],
       [action |-> Min, text |-> str_minimum,
        uuid_number |-> "4aad1b26ea9b455190d0d917102b7f36"],
       [action |-> Max, text |-> str_maximum,
        uuid_number |-> "4ffb631fa4ba4fb5a189f7a3bb9dfa01"],
       [action |-> Reverse, text |-> str_reverse,
        uuid_number |-> "1a8a1df0523e4acb8390b872329a9ca7"],
       [action |-> Set(0), text |-> str_set,
        uuid_number |-> "2a4fae8107134e1fa8187ac56e4f13e4"] >>

ErrNoTarget == "No target was given"

ErrBadText == "Bad Action text given"

ErrBadUuid == "Bad Uuid number given, no associated action"

\* Result<Action, &'static str>
OkAction(a) == [res |-> OkRes, val |-> Some(a)]

ErrAction(e) == [res |-> e, val |-> None]

UpperCase ==
    <<"A", "B", "C", "D", "E", "F", "G", "H", "I", "J", "K", "L", "M",
      "N", "O", "P", "Q", "R", "S", "T", "U", "V", "W", "X", "Y", "Z">>

LowerCase ==
    <<"a", "b", "c", "d", "e", "f", "g", "h", "i", "j", "k", "l", "m",
      "n", "o", "p", "q", "r", "s", "t", "u", "v", "w", "x", "y", "z">>

char_to_lowercase(c) ==
    IF \E i \in 1..Len(UpperCase) : UpperCase[i] = c
    THEN LowerCase[CHOOSE i \in 1..Len(UpperCase) : UpperCase[i] = c]
    ELSE c

\* str::to_lowercase on the characters of the model
to_lowercase(s) == [i \in 1..Len(s) |-> char_to_lowercase(s[i])]

RECURSIVE find_text(_, _)
\* the for loop of from_str over ACTION_SYNONYMS, from entry i on
find_text(text, i) ==
    IF i > Len(ACTION_SYNONYMS) THEN ErrAction(ErrBadText)
    ELSE IF ACTION_SYNONYMS[i].text = text THEN OkAction(ACTION_SYNONYMS[i].action)
    ELSE find_text(text, i + 1)

\* from_str that takes every kind from the table, payload included
from_str_from_table(s, target) == find_text(to_lowercase(s), 1)

from_str(s, target) ==
    LET l == to_lowercase(s)
    IN  IF l = str_up THEN OkAction(Up(target))
        ELSE IF l = str_down THEN OkAction(Down(target))
        ELSE IF l = str_set
             THEN IF is_some(target) THEN OkAction(Set(unwrap(target)))
                  ELSE ErrAction(ErrNoTarget)
        ELSE find_text(l, 1)

RECURSIVE find_uuid_number(_, _, _)
\* the for loop of from_u128 over ACTION_SYNONYMS, from entry i on
find_uuid_number(uuid_number, target, i) ==
    IF i > Len(ACTION_SYNONYMS) THEN ErrAction(ErrBadUuid)
    ELSE IF ACTION_SYNONYMS[i].uuid_number = uuid_number
         THEN from_str(ACTION_SYNONYMS[i].text, target)
    ELSE find_uuid_number(uuid_number, target, i + 1)

\* from_u128 that resolves the kind and drops the argument
from_u128_no_target(uuid_number, target) == find_uuid_number(uuid_number, None, 1)

from_u128(uuid_number, target) == find_uuid_number(uuid_number, target, 1)

RECURSIVE find_variant(_, _)
\* the for loop of to_str and to_uuid: the first entry of the same variant, or 0
find_variant(a, i) ==
    IF i > Len(ACTION_SYNONYMS) THEN 0
    ELSE IF same_variant(a, ACTION_SYNONYMS[i].action) THEN i
    ELSE find_variant(a, i + 1)

\* to_str that compares whole values, payload included
to_str_exact(a) ==
    LET same == {i \in 1..Len(ACTION_SYNONYMS) : ACTION_SYNONYMS[i].action = a}
    IN  IF same = {} THEN str_empty
        ELSE ACTION_SYNONYMS[CHOOSE i \in same : TRUE].text

to_str(a) ==
    LET i == find_variant(a, 1)
    IN  IF i = 0 THEN str_empty ELSE ACTION_SYNONYMS[i].text

\* Uuid::from_u128 and Uuid::as_u128: the sixteen bytes of the number
Uuid_from_u128(n) == [bytes |-> n]

as_u128(u) == u.bytes

to_uuid(a) ==
    LET i == find_variant(a, 1)
    IN  IF i = 0 THEN Uuid_from_u128(u128_zero)
        ELSE Uuid_from_u128(ACTION_SYNONYMS[i].uuid_number)

\* Action::get_value
get_value(a) == IF a.tag \in {"Up", "Down"} THEN a.v
                ELSE IF a.tag = "Set" THEN Some(unwrap(a.v))
                ELSE None

----------------------------------------------------------------------------
(* Inputs the callers supply *)

NumSlots == 8

\* steps of Up requests, steps of Down requests, indexes of Set requests
UpSteps == {2, UsizeMax}

DownSteps == {0, 2, UsizeMax}

SetIndexes == {2, UsizeMax}

Actions ==
    {On, Off, Min, Max, Reverse}
        \cup {Up(None)} \cup {Up(Some(n)) : n \in UpSteps}
        \cup {Down(None)} \cup {Down(Some(n)) : n \in DownSteps}
        \cup {Set(n) : n \in SetIndexes}

\* a default table whose lowest slot is not off
DefaultDutyCycles_from_two ==
    <<Some(2), Some(3), Some(4), Some(8), Some(16), Some(32), Some(64), Some(96)>>

DefaultDutyCycles ==
    <<Some(0), Some(2), Some(4), Some(8), Some(16), Some(32), Some(64), Some(96)>>

FourDutyCycles == <<Some(0), Some(1), Some(3), Some(4), None, None, None, None>>

OneDutyCycle == <<Some(0), None, None, None, None, None, None, None>>

NoDutyCycles == <<None, None, None, None, None, None, None, None>>

GapDutyCycles == <<Some(0), None, Some(3), None, None, None, None, None>>

DutyCycleInputs ==
    {DefaultDutyCycles, FourDutyCycles, OneDutyCycle, NoDutyCycles, GapDutyCycles,
     \* a cell is a u32: nothing but the field's documentation keeps it within 100
     <<Some(0), Some(U32Max), None, None, None, None, None, None>>}

DefaultAvailableActions == <<On, Off, Up(None), Down(None), Min, Max, Set(0)>>

AllAvailableActions ==
    <<On, Off, Up(None), Down(None), Min, Max, Reverse, Set(0)>>

AvailableActionInputs ==
    { DefaultAvailableActions,
      AllAvailableActions,
      <<>>,
      <<On, Set(1)>> }

TargetInputs == {0, 2, NumSlots - 1}

DefaultTargetInputs == {0, 5}

ActionInputs == {On, Set(2)}

ScaleInputs == {100, 255}

\* the builder chain alone is small enough to try every index and more lists
BuilderIndexes == 0..UsizeMax

ThreeDutyCycles == <<Some(0), Some(10), Some(50), None, None, None, None, None>>

BuilderDutyCycleInputs == DutyCycleInputs \cup {ThreeDutyCycles}

\* the uuid and name handed to Device::build
UuidArgs == {"f1d34301c91642a88c7c274828177649"}

NameArgs == {"fan"}

\* enum DeviceGroup
Light == "Light"

Fan == "Fan"

BuilderAvailableActionInputs ==
    AvailableActionInputs
        \cup { <<On, Up(Some(0))>>,
               <<On, Down(Some(0))>>,
               <<Up(None), Up(Some(2))>>,
               <<Down(Some(UsizeMax)), Set(1)>>,
               <<Set(0), Set(UsizeMax)>> }

----------------------------------------------------------------------------
VARIABLES
    overflow_checks,       \* build profile: TRUE panics on overflow, FALSE wraps
    uuid,
    name,
    action,
    available_actions,
    default_target,
    duty_cycles,
    max_duty_cycle_index,
    target,
    freq_Hz,
    device_group,
    reversed,
    updated,
    request,               \* the Action passed to take_action, when that was the last call
    result,                \* what the last call returned (or Panic)
    ret,                   \* the duty cycle the last call returned, if any
    scale,                 \* the max_duty_cycle passed to get_and_update_duty_cycle,
                           \* when that was the last call
    run,                   \* consecutive successful identical take_action calls
    moved,                 \* the Device was moved into a setter that returned Err
    reg,                   \* the registry call at hand: its arguments and what it returned
    lists,                 \* the Vec<Device> behind each Arc<Mutex<..>>
    locks,                 \* each Mutex: the thread that holds it, and whether it is poisoned
    threads,               \* each thread's position in Devices::append and its two handles
    sync,                  \* the driver's position and the last duty cycle it read
    json                   \* the text last handed to from_json, and whether the
                           \* Device at hand was decoded

device == <<uuid, name, action, available_actions, default_target, duty_cycles,
            max_duty_cycle_index, target, freq_Hz, device_group, reversed, updated>>

vars == <<overflow_checks, uuid, name, action, available_actions, default_target,
          duty_cycles, max_duty_cycle_index, target, freq_Hz, device_group, reversed,
          updated, request, result, ret, scale, run, moved, reg, lists, locks,
          threads, sync, json>>

\* what the calls on one Device leave alone
others == <<reg, lists, locks, threads, sync, json>>

NoRun == [kind |-> "", n |-> 0, start_target |-> 0, start_reversed |-> FALSE]

----------------------------------------------------------------------------
(* Machine arithmetic *)

\* a + b on usize
usize_add(a, b) ==
    IF a + b <= UsizeMax THEN [panic |-> FALSE, val |-> a + b]
    ELSE IF overflow_checks THEN [panic |-> TRUE, val |-> 0]
    ELSE [panic |-> FALSE, val |-> (a + b) % (UsizeMax + 1)]

\* a - b on usize
usize_sub(a, b) ==
    IF a >= b THEN [panic |-> FALSE, val |-> a - b]
    ELSE IF overflow_checks THEN [panic |-> TRUE, val |-> 0]
    ELSE [panic |-> FALSE, val |-> (a - b) % (UsizeMax + 1)]

\* a * b on u32
u32_mul(a, b) ==
    IF a * b <= U32Max THEN [panic |-> FALSE, val |-> a * b]
    ELSE IF overflow_checks THEN [panic |-> TRUE, val |-> 0]
    ELSE [panic |-> FALSE, val |-> (a * b) % (U32Max + 1)]

usize_min(a, b) == IF a <= b THEN a ELSE b

----------------------------------------------------------------------------
(* Device::get_max_duty_cycle_index *)

RECURSIVE scan_duty_cycles(_, _, _, _)
\* the for loop: i is the next slot, the result is <<error, some_count>>
scan_duty_cycles(dc, i, some_count, found_none) ==
    IF i > Len(dc) THEN [err |-> FALSE, some_count |-> some_count]
    ELSE IF is_some(dc[i])
         THEN IF found_none
              THEN [err |-> TRUE, some_count |-> some_count + 1]
              ELSE scan_duty_cycles(dc, i + 1, some_count + 1, found_none)
         ELSE scan_duty_cycles(dc, i + 1, some_count, TRUE)

get_max_duty_cycle_index(dc) ==
    LET s == scan_duty_cycles(dc, 1, 0, FALSE)
        d == usize_sub(s.some_count, 1)
    IN  IF s.err THEN [res |-> ErrSomeAfterNone, val |-> 0]
        ELSE IF d.panic THEN [res |-> Panic, val |-> 0]
        ELSE [res |-> OkRes, val |-> d.val]

----------------------------------------------------------------------------
(* Device::build *)

Device_build(uuid_arg, name_arg) ==
    /\ overflow_checks \in BOOLEAN
    /\ uuid = uuid_arg
    /\ name = name_arg
    /\ freq_Hz = 100
    /\ device_group = None
    /\ action = Off
    /\ available_actions = DefaultAvailableActions
    /\ default_target = 3
    /\ duty_cycles = DefaultDutyCycles
    /\ max_duty_cycle_index = get_max_duty_cycle_index(DefaultDutyCycles).val
    /\ target = 0
    /\ reversed = FALSE
    /\ updated = TRUE
    /\ request = None
    /\ result = get_max_duty_cycle_index(DefaultDutyCycles).res
    /\ ret = None
    /\ scale = None
    /\ run = NoRun
    /\ moved = FALSE

----------------------------------------------------------------------------
(* The builder setters.  Each takes the Device by value and returns it or  *)
(* an error.  No setter assigns a field before its last test, so a clone   *)
(* the caller kept has the fields the rejected step started from; the      *)
(* fields stand for that clone after an Err, or for nothing when moved.    *)

\* the caller still has a Device to call on: no call panicked and no setter
\* that was handed the Device itself returned Err
usable == result # Panic /\ ~moved

\* what every call that is not a successful take_action leaves behind.  A
\* setter takes self by value: on Err the Device it was handed is dropped,
\* and the caller goes on only if the setter was handed a clone.
Returned(res) ==
    /\ request' = None
    /\ result' = res
    /\ ret' = None
    /\ scale' = None
    /\ run' = NoRun
    /\ moved' \in (IF res \in {OkRes, Panic} THEN {FALSE} ELSE BOOLEAN)
    /\ UNCHANGED <<overflow_checks, uuid, name>>

with_action(a) ==
    /\ usable
    /\ action' = a
    /\ Returned(OkRes)
    /\ UNCHANGED <<available_actions, default_target, duty_cycles,
                   max_duty_cycle_index, target, reversed, updated>>
    /\ UNCHANGED <<freq_Hz, device_group>>

RECURSIVE check_available_actions(_, _)
\* the for loop over available_actions.iter(): the first offending entry returns
check_available_actions(list, i) ==
    IF i > Len(list) THEN OkRes
    ELSE IF list[i].tag = "Up" /\ is_some(list[i].v) THEN ErrUpPayload
    ELSE IF list[i].tag = "Down" /\ is_some(list[i].v) THEN ErrDownPayload
    ELSE IF list[i].tag = "Set" /\ unwrap(list[i].v) # 0 THEN ErrSetPayload
    ELSE check_available_actions(list, i + 1)

\* available_actions that tests the Set entries only
with_available_actions_set_only(list) ==
    /\ usable
    /\ LET res == IF \E i \in 1..Len(list) :
                         list[i].tag = "Set" /\ unwrap(list[i].v) # 0
                  THEN ErrSetPayload
                  ELSE OkRes
       IN  /\ available_actions' = IF res = OkRes THEN list ELSE available_actions
           /\ Returned(res)
    /\ UNCHANGED <<action, default_target, duty_cycles, max_duty_cycle_index,
                   target, reversed, updated>>
    /\ UNCHANGED <<freq_Hz, device_group>>

with_available_actions(list) ==
    /\ usable
    /\ LET res == check_available_actions(list, 1)
       IN  /\ available_actions' = IF res = OkRes THEN list ELSE available_actions
           /\ Returned(res)
    /\ UNCHANGED <<action, default_target, duty_cycles, max_duty_cycle_index,
                   target, reversed, updated>>
    /\ UNCHANGED <<freq_Hz, device_group>>

with_default_target(t) ==
    /\ usable
    /\ IF t > max_duty_cycle_index
       THEN /\ Returned(ErrDefaultTarget)
            /\ UNCHANGED default_target
       ELSE /\ default_target' = t
            /\ Returned(OkRes)
    /\ UNCHANGED <<action, available_actions, duty_cycles, max_duty_cycle_index,
                   target, reversed, updated>>
    /\ UNCHANGED <<freq_Hz, device_group>>

\* duty_cycles that fits the targets to the new table instead of rejecting it
with_duty_cycles_fitting(dc) ==
    /\ usable
    /\ LET m == get_max_duty_cycle_index(dc)
       IN  IF m.res # OkRes
           THEN /\ Returned(m.res)
                /\ UNCHANGED <<duty_cycles, max_duty_cycle_index, default_target,
                               target>>
           ELSE /\ duty_cycles' = dc
                /\ max_duty_cycle_index' = m.val
                /\ default_target' = usize_min(default_target, m.val)
                /\ target' = usize_min(target, m.val)
                /\ Returned(OkRes)
    /\ UNCHANGED <<action, available_actions, reversed, updated>>
    /\ UNCHANGED <<freq_Hz, device_group>>

\* duty_cycles that tests the new table against default_target only
with_duty_cycles_default_only(dc) ==
    /\ usable
    /\ LET m == get_max_duty_cycle_index(dc)
       IN  IF m.res # OkRes
           THEN /\ Returned(m.res)
                /\ UNCHANGED <<duty_cycles, max_duty_cycle_index>>
           ELSE IF default_target > m.val
           THEN /\ Returned(ErrDutyCyclesTargets)
                /\ UNCHANGED <<duty_cycles, max_duty_cycle_index>>
           ELSE /\ duty_cycles' = dc
                /\ max_duty_cycle_index' = m.val
                /\ Returned(OkRes)
    /\ UNCHANGED <<action, available_actions, default_target, target, reversed,
                   updated>>
    /\ UNCHANGED <<freq_Hz, device_group>>

with_duty_cycles(dc) ==
    /\ usable
    /\ LET m == get_max_duty_cycle_index(dc)
       IN  IF m.res # OkRes
           THEN /\ Returned(m.res)
                /\ UNCHANGED <<duty_cycles, max_duty_cycle_index>>
           ELSE IF default_target > m.val \/ target > m.val
           THEN /\ Returned(ErrDutyCyclesTargets)
                /\ UNCHANGED <<duty_cycles, max_duty_cycle_index>>
           ELSE /\ duty_cycles' = dc
                /\ max_duty_cycle_index' = m.val
                /\ Returned(OkRes)
    /\ UNCHANGED <<action, available_actions, default_target, target, reversed,
                   updated>>
    /\ UNCHANGED <<freq_Hz, device_group>>

\* target that assigns before it tests
with_target_assign_first(t) ==
    /\ usable
    /\ target' = t
    /\ IF t > max_duty_cycle_index
       THEN Returned(ErrTarget)
       ELSE Returned(OkRes)
    /\ UNCHANGED <<action, available_actions, default_target, duty_cycles,
                   max_duty_cycle_index, reversed, updated>>
    /\ UNCHANGED <<freq_Hz, device_group>>

with_target(t) ==
    /\ usable
    /\ IF t > max_duty_cycle_index
       THEN /\ Returned(ErrTarget)
            /\ UNCHANGED target
       ELSE /\ target' = t
            /\ Returned(OkRes)
    /\ UNCHANGED <<action, available_actions, default_target, duty_cycles,
                   max_duty_cycle_index, reversed, updated>>
    /\ UNCHANGED <<freq_Hz, device_group>>

with_freq_Hz(freq) ==
    /\ usable
    /\ freq_Hz' = freq
    /\ Returned(OkRes)
    /\ UNCHANGED <<action, available_actions, default_target, duty_cycles,
                   max_duty_cycle_index, target, device_group, reversed, updated>>

with_device_group(group) ==
    /\ usable
    /\ device_group' = group
    /\ Returned(OkRes)
    /\ UNCHANGED <<action, available_actions, default_target, duty_cycles,
                   max_duty_cycle_index, target, freq_Hz, reversed, updated>>

----------------------------------------------------------------------------
(* Device::take_action.  Each arm of the match yields the result of the    *)
(* call and the target and reversed it leaves.                             *)

Fail(res) == [res |-> res, target |-> target, reversed |-> reversed]

Done(t, r) == [res |-> OkRes, target |-> t, reversed |-> r]

\* On that turns the device fully on instead of to its default target
take_action_On_max ==
    IF ~contains(available_actions, On) THEN Fail(ErrNotAvailable)
    ELSE Done(max_duty_cycle_index, reversed)

take_action_On ==
    IF ~contains(available_actions, On) THEN Fail(ErrNotAvailable)
    ELSE Done(default_target, reversed)

take_action_Off ==
    IF ~contains(available_actions, Off) THEN Fail(ErrNotAvailable)
    ELSE Done(0, reversed)

\* Up without the clamp to max_duty_cycle_index
take_action_Up_unclamped(v) ==
    IF ~contains(available_actions, Up(None)) THEN Fail(ErrNotAvailable)
    ELSE LET amount == IF is_some(v) THEN unwrap(v) ELSE 1
             sum == usize_add(target, amount)
         IN  IF sum.panic THEN Fail(Panic) ELSE Done(sum.val, reversed)

take_action_Up(v) ==
    IF ~contains(available_actions, Up(None)) THEN Fail(ErrNotAvailable)
    ELSE LET amount == IF is_some(v) THEN unwrap(v) ELSE 1
             sum == usize_add(target, amount)
         IN  IF sum.panic THEN Fail(Panic)
             ELSE Done(usize_min(sum.val, max_duty_cycle_index), reversed)

\* Down without the test that guards the subtraction
take_action_Down_unguarded(v) ==
    IF ~contains(available_actions, Down(None)) THEN Fail(ErrNotAvailable)
    ELSE LET amount == IF is_some(v) THEN unwrap(v) ELSE 1
             diff == usize_sub(target, amount)
         IN  IF diff.panic THEN Fail(Panic) ELSE Done(diff.val, reversed)

take_action_Down(v) ==
    IF ~contains(available_actions, Down(None)) THEN Fail(ErrNotAvailable)
    ELSE LET amount == IF is_some(v) THEN unwrap(v) ELSE 1
         IN  IF amount < target
             THEN LET diff == usize_sub(target, amount)
                  IN  IF diff.panic THEN Fail(Panic) ELSE Done(diff.val, reversed)
             ELSE Done(0, reversed)

\* Min that selects the first slot
take_action_Min_zero ==
    IF ~contains(available_actions, Min) THEN Fail(ErrNotAvailable)
    ELSE Done(0, reversed)

take_action_Min ==
    IF ~contains(available_actions, Min) THEN Fail(ErrNotAvailable)
    ELSE Done(1, reversed)

\* Max without the availability check
take_action_Max_unchecked == Done(max_duty_cycle_index, reversed)

take_action_Max ==
    IF ~contains(available_actions, Max) THEN Fail(ErrNotAvailable)
    ELSE Done(max_duty_cycle_index, reversed)

\* Reverse that sets the flag instead of flipping it
take_action_Reverse_set ==
    IF ~contains(available_actions, Reverse) THEN Fail(ErrNotAvailable)
    ELSE Done(target, TRUE)

take_action_Reverse ==
    IF ~contains(available_actions, Reverse) THEN Fail(ErrNotAvailable)
    ELSE Done(target, ~reversed)

\* Set that clamps an index beyond the table instead of rejecting it
take_action_Set_clamped(v) ==
    IF ~contains(available_actions, Set(0)) THEN Fail(ErrNotAvailable)
    ELSE Done(usize_min(v, max_duty_cycle_index), reversed)

take_action_Set(v) ==
    IF ~contains(available_actions, Set(0)) THEN Fail(ErrNotAvailable)
    ELSE IF v > max_duty_cycle_index THEN Fail(ErrSetTooLarge)
    ELSE Done(usize_min(v, max_duty_cycle_index), reversed)

take_action_match(a) ==
    CASE a.tag = "On" -> take_action_On
      [] a.tag = "Off" -> take_action_Off
      [] a.tag = "Up" -> take_action_Up(a.v)
      [] a.tag = "Down" -> take_action_Down(a.v)
      [] a.tag = "Min" -> take_action_Min
      [] a.tag = "Max" -> take_action_Max
      [] a.tag = "Reverse" -> take_action_Reverse
      [] a.tag = "Set" -> take_action_Set(unwrap(a.v))

\* the kind of run a request belongs to: only the three calls whose
\* repetition is of interest are counted
run_kind(a) ==
    IF a = Up(None) THEN "Up"
    ELSE IF a = Down(None) THEN "Down"
    ELSE IF a = Reverse THEN "Reverse"
    ELSE ""

next_run(a) ==
    IF run_kind(a) = "" THEN NoRun
    ELSE IF run.kind = run_kind(a)
         THEN [run EXCEPT !.n = IF run.n < RunCap THEN run.n + 1 ELSE RunCap]
         ELSE [kind |-> run_kind(a), n |-> 1, start_target |-> target,
               start_reversed |-> reversed]

\* take_action that records the kind of the request without its payload
take_action_kind_only(a) ==
    /\ usable
    /\ LET out == take_action_match(a)
       IN  /\ request' = Some(a)
           /\ result' = out.res
           /\ ret' = None
           /\ scale' = None
           /\ IF out.res = OkRes
              THEN /\ target' = out.target
                   /\ reversed' = out.reversed
                   /\ action' = IF a.tag = "Up" THEN Up(None)
                                ELSE IF a.tag = "Down" THEN Down(None)
                                ELSE IF a.tag = "Set" THEN Set(0)
                                ELSE a
                   /\ updated' = TRUE
                   /\ run' = next_run(a)
              ELSE /\ UNCHANGED <<target, reversed, action, updated>>
                   /\ run' = NoRun
    /\ UNCHANGED <<overflow_checks, uuid, name, available_actions, default_target,
                   duty_cycles, max_duty_cycle_index, freq_Hz, device_group, moved>>

\* take_action that makes the target it reaches the new default_target
take_action_moves_default(a) ==
    /\ usable
    /\ LET out == take_action_match(a)
       IN  /\ request' = Some(a)
           /\ result' = out.res
           /\ ret' = None
           /\ scale' = None
           /\ IF out.res = OkRes
              THEN /\ target' = out.target
                   /\ default_target' = out.target
                   /\ reversed' = out.reversed
                   /\ action' = a
                   /\ updated' = TRUE
                   /\ run' = next_run(a)
              ELSE /\ UNCHANGED <<target, default_target, reversed, action, updated>>
                   /\ run' = NoRun
    /\ UNCHANGED <<overflow_checks, uuid, name, available_actions, duty_cycles,
                   max_duty_cycle_index, freq_Hz, device_group, moved>>

take_action(a) ==
    /\ usable
    /\ LET out == take_action_match(a)
       IN  /\ request' = Some(a)
           /\ result' = out.res
           /\ ret' = None
           /\ scale' = None
           /\ IF out.res = OkRes
              THEN /\ target' = out.target
                   /\ reversed' = out.reversed
                   /\ action' = a
                   /\ updated' = TRUE
                   /\ run' = next_run(a)
              ELSE /\ UNCHANGED <<target, reversed, action, updated>>
                   /\ run' = NoRun
    /\ UNCHANGED <<overflow_checks, uuid, name, available_actions, default_target,
                   duty_cycles, max_duty_cycle_index, freq_Hz, device_group, moved>>

----------------------------------------------------------------------------
(* Device::needs_hardware_duty_cycle_update, get_and_update_duty_cycle *)

needs_hardware_duty_cycle_update == updated

\* self.duty_cycles[i] with the bounds check of array indexing
slot(i) ==
    IF i >= NumSlots THEN [panic |-> TRUE, val |-> None]
    ELSE [panic |-> FALSE, val |-> duty_cycles[i + 1]]

\* a selection that yields 0 once the duty cycle has been acknowledged
selected_duty_cycle_once ==
    LET at_target == slot(target)
        at_max == slot(max_duty_cycle_index)
    IN  IF ~updated THEN [panic |-> FALSE, val |-> 0]
        ELSE IF at_target.panic THEN [panic |-> TRUE, val |-> 0]
        ELSE IF is_some(at_target.val)
             THEN [panic |-> FALSE, val |-> unwrap(at_target.val)]
        ELSE IF at_max.panic \/ ~is_some(at_max.val) THEN [panic |-> TRUE, val |-> 0]
        ELSE [panic |-> FALSE, val |-> unwrap(at_max.val)]

\* the match that selects ds
selected_duty_cycle ==
    LET at_target == slot(target)
        at_max == slot(max_duty_cycle_index)
    IN  IF at_target.panic THEN [panic |-> TRUE, val |-> 0]
        ELSE IF is_some(at_target.val)
             THEN [panic |-> FALSE, val |-> unwrap(at_target.val)]
        ELSE IF at_max.panic \/ ~is_some(at_max.val) THEN [panic |-> TRUE, val |-> 0]
        ELSE [panic |-> FALSE, val |-> unwrap(at_max.val)]

get_and_update_duty_cycle(max_duty_cycle) ==
    /\ usable
    /\ request' = None
    /\ scale' = Some(max_duty_cycle)
    /\ run' = NoRun
    /\ LET ds == selected_duty_cycle
           prod == u32_mul(ds.val, max_duty_cycle)
       IN  IF ds.panic
           THEN /\ result' = Panic
                /\ ret' = None
                /\ UNCHANGED updated
           ELSE /\ updated' = FALSE
                /\ IF prod.panic
                   THEN result' = Panic /\ ret' = None
                   ELSE result' = OkRes /\ ret' = Some(prod.val \div 100)
    /\ UNCHANGED <<overflow_checks, uuid, name, action, available_actions,
                   default_target, duty_cycles, max_duty_cycle_index, target, freq_Hz,
                   device_group, reversed, moved>>

----------------------------------------------------------------------------
(* Calls of the Action conversions.  reg holds the arguments at hand and   *)
(* what the last call returned; to_str and to_uuid leave their result      *)
(* where from_str and from_u128 take their argument.  fn names the last    *)
(* call and prev the call before it.                                       *)

\* every variable of the one Device and of its last call
device_vars ==
    <<overflow_checks, uuid, name, action, available_actions, default_target,
      duty_cycles, max_duty_cycle_index, target, freq_Hz, device_group, reversed,
      updated, request, result, ret, scale, run, moved>>

KindInputs == Actions \cup {Set(0)}

TextInputs ==
    { str_on, <<"O", "N">>, str_off, <<"o", "F", "f">>,
      str_up, <<"U", "p">>, str_down, <<"D", "O", "W", "N">>,
      str_set, <<"S", "e", "T">>,
      str_minimum, <<"M", "a", "x", "i", "m", "u", "m">>, <<"R", "E", "V", "E", "R", "S", "E">>,
      str_empty, <<"o">>, <<"u", "p", " ">>, <<"m", "i", "n">>,
      <<"n", "o", "t", "_", "a", "n", "y", "t", "h", "i", "n", "g">> }

UuidInputs ==
    { u128_zero, "00000000000000000000000000001234",
      "bc6c6eeba0ba40e0a57ff5186d4350ce", "2a4fae8107134e1fa8187ac56e4f13e4" }

ArgInputs == {None, Some(0), Some(5)}

RegIdle ==
    [kind |-> Off, text |-> str_empty, uuid_number |-> u128_zero, target |-> None,
     prev |-> "", fn |-> "", res |-> OkRes, val |-> None]

call_to_str ==
    /\ reg' = [reg EXCEPT !.prev = reg.fn, !.fn = "to_str", !.text = to_str(reg.kind),
                          !.res = OkRes, !.val = None]
    /\ UNCHANGED <<device_vars, lists, locks, threads, sync, json>>

call_to_uuid ==
    /\ reg' = [reg EXCEPT !.prev = reg.fn, !.fn = "to_uuid",
                          !.uuid_number = as_u128(to_uuid(reg.kind)),
                          !.res = OkRes, !.val = None]
    /\ UNCHANGED <<device_vars, lists, locks, threads, sync, json>>

call_from_str ==
    /\ LET r == from_str(reg.text, reg.target)
       IN  reg' = [reg EXCEPT !.prev = reg.fn, !.fn = "from_str", !.res = r.res, !.val = r.val]
    /\ UNCHANGED <<device_vars, lists, locks, threads, sync, json>>

call_from_u128 ==
    /\ LET r == from_u128(reg.uuid_number, reg.target)
       IN  reg' = [reg EXCEPT !.prev = reg.fn, !.fn = "from_u128", !.res = r.res, !.val = r.val]
    /\ UNCHANGED <<device_vars, lists, locks, threads, sync, json>>

----------------------------------------------------------------------------
(* The collection of Devices: lists are the Vecs behind the Arcs, locks    *)
(* their Mutexes, threads the callers of Devices::append.                  *)

ListIds == {1, 2}
ThreadIds == {1, 2}
NoThread == 0

ListsIdle == [l \in ListIds |-> <<>>]
LocksIdle == [l \in ListIds |-> [holder |-> NoThread, poisoned |-> FALSE]]
ThreadsIdle == [t \in ThreadIds |-> [pc |-> "idle", self |-> 1, other |-> 1]]
\* the Devices of the model, by name
bedroom_light == "bedroom light"

kitchen_light == "kitchen light"

counter_light == "counter light"

\* what a Vec<Device> holds before any append
ListInputs ==
    { <<>>, <<bedroom_light>>, <<bedroom_light, kitchen_light>>,
      <<counter_light, bedroom_light>> }

\* Vec::append that copies the elements of other and leaves them there
Vec_append_copy(self_vec, other_vec) ==
    [self |-> self_vec \o other_vec, other |-> other_vec]

\* Vec::append: moves all the elements of other into self, leaving other empty
Vec_append(self_vec, other_vec) ==
    [self |-> self_vec \o other_vec, other |-> <<>>]

Unlocked(m) == [m EXCEPT !.holder = NoThread]

\* a guard dropped while its thread panics poisons the Mutex
Poisoned(m) == [holder |-> NoThread, poisoned |-> TRUE]

\* thread t calls self.append(&mut other) on handles to the lists s and o;
\* s = o when other is a clone of self
append_call(t, s, o) ==
    /\ threads[t].pc = "idle"
    /\ threads' = [threads EXCEPT ![t] = [pc |-> "lock_self", self |-> s, other |-> o]]
    /\ UNCHANGED <<device_vars, reg, lists, locks, sync, json>>

\* let mut self_guard = self.devices.lock().unwrap();
lock_self_guard(t) ==
    LET s == threads[t].self
    IN  /\ threads[t].pc = "lock_self"
        /\ locks[s].holder = NoThread
        /\ IF locks[s].poisoned
           THEN /\ threads' = [threads EXCEPT ![t].pc = "panicked"]
                /\ UNCHANGED locks
           ELSE /\ threads' = [threads EXCEPT ![t].pc = "lock_other"]
                /\ locks' = [locks EXCEPT ![s].holder = t]
        /\ UNCHANGED <<device_vars, reg, lists, sync, json>>

\* let mut other_guard = other.devices.lock().unwrap();
\* a Mutex locked again by the thread that holds it does not return: the
\* thread stays blocked, or lock panics and self_guard is dropped on the way
lock_other_guard(t) ==
    LET s == threads[t].self
        o == threads[t].other
    IN  /\ threads[t].pc = "lock_other"
        /\ \/ /\ locks[o].holder = t
              /\ \/ /\ threads' = [threads EXCEPT ![t].pc = "deadlocked"]
                    /\ UNCHANGED locks
                 \/ /\ threads' = [threads EXCEPT ![t].pc = "panicked"]
                    /\ locks' = [locks EXCEPT ![s] = Poisoned(locks[s])]
           \/ /\ locks[o].holder = NoThread
              /\ locks[o].poisoned
              /\ threads' = [threads EXCEPT ![t].pc = "panicked"]
              /\ locks' = [locks EXCEPT ![s] = Poisoned(locks[s])]
           \/ /\ locks[o].holder = NoThread
              /\ ~locks[o].poisoned
              /\ threads' = [threads EXCEPT ![t].pc = "append"]
              /\ locks' = [locks EXCEPT ![o].holder = t]
        /\ UNCHANGED <<device_vars, reg, lists, sync, json>>

\* self_guard.append(&mut other_guard);
append_guards(t) ==
    LET s == threads[t].self
        o == threads[t].other
        moved_vecs == Vec_append(lists[s], lists[o])
    IN  /\ threads[t].pc = "append"
        /\ lists' = [lists EXCEPT ![s] = moved_vecs.self, ![o] = moved_vecs.other]
        /\ threads' = [threads EXCEPT ![t].pc = "drop_other"]
        /\ UNCHANGED <<device_vars, reg, locks, sync, json>>

\* the end of append: locals are dropped in reverse order of declaration
drop_other_guard(t) ==
    /\ threads[t].pc = "drop_other"
    /\ locks' = [locks EXCEPT ![threads[t].other] = Unlocked(locks[threads[t].other])]
    /\ threads' = [threads EXCEPT ![t].pc = "drop_self"]
    /\ UNCHANGED <<device_vars, reg, lists, sync, json>>

drop_self_guard(t) ==
    /\ threads[t].pc = "drop_self"
    /\ locks' = [locks EXCEPT ![threads[t].self] = Unlocked(locks[threads[t].self])]
    /\ threads' = [threads EXCEPT ![t].pc = "idle"]
    /\ UNCHANGED <<device_vars, reg, lists, sync, json>>

\* the steps of thread t inside append
append_body(t) ==
    \/ lock_self_guard(t)
    \/ lock_other_guard(t)
    \/ append_guards(t)
    \/ drop_other_guard(t)
    \/ drop_self_guard(t)

----------------------------------------------------------------------------
(* A controller calling take_action and a driver calling                   *)
(* needs_hardware_duty_cycle_update and get_and_update_duty_cycle on one   *)
(* Device of the collection, each call made while holding the lock of the  *)
(* list.  sync is what the driver has seen: the last answer of             *)
(* needs_hardware_duty_cycle_update and the last duty cycle it was given.  *)

SyncIdle == [polled |-> None, last |-> None]

SyncDutyCycleInputs == {DefaultDutyCycles, FourDutyCycles, OneDutyCycle}

\* Device::build(..).available_actions(list)?.default_target(d)?
\*     .duty_cycles(dc)?.target(t)? returned Ok
Device_built(list, d, dc, t) ==
    LET index == get_max_duty_cycle_index(dc)
    IN  /\ index.res = OkRes
        /\ d <= index.val
        /\ t <= index.val
        /\ overflow_checks \in BOOLEAN
        /\ uuid \in UuidArgs
        /\ name \in NameArgs
        /\ freq_Hz = 100
        /\ device_group = None
        /\ action = Off
        /\ available_actions = list
        /\ default_target = d
        /\ duty_cycles = dc
        /\ max_duty_cycle_index = index.val
        /\ target = t
        /\ reversed = FALSE
        /\ updated = TRUE
        /\ request = None
        /\ result = OkRes
        /\ ret = None
        /\ scale = None
        /\ run = NoRun
        /\ moved = FALSE

controller_take_action(a) ==
    /\ take_action(a)
    /\ UNCHANGED <<reg, lists, locks, threads, sync, json>>

driver_needs_update ==
    /\ usable
    /\ sync' = [sync EXCEPT !.polled = Some(needs_hardware_duty_cycle_update)]
    /\ UNCHANGED <<device_vars, reg, lists, locks, threads, json>>

driver_get_and_update(max_duty_cycle) ==
    /\ get_and_update_duty_cycle(max_duty_cycle)
    /\ sync' = [sync EXCEPT !.last =
                   IF result' = OkRes
                   THEN Some([scale |-> max_duty_cycle, value |-> unwrap(ret')])
                   ELSE sync.last]
    /\ UNCHANGED <<reg, lists, locks, threads, json>>

----------------------------------------------------------------------------
(* Device::from_json.  A JSON text is the tree of its values; the object    *)
(* of a Device is the record of its twelve members, a member the text      *)
(* lacks being JMissing.  The decoders are those that derive(Deserialize)  *)
(* generates: each checks the shape of its value and nothing else.         *)

JNull == [j |-> "null"]

JMissing == [j |-> "missing"]

JNum(n) == [j |-> "num", n |-> n]

JStr(s) == [j |-> "str", s |-> s]

JBool(b) == [j |-> "bool", b |-> b]

JArr(a) == [j |-> "arr", a |-> a]

\* an object of one member, as in {"Up":3}
JTagged(k, v) == [j |-> "obj", k |-> k, v |-> v]

\* a text that is not the JSON of an object
NotJson == [j |-> "text"]

ErrJson == "Could not convert Device to json"

DeOk(v) == [ok |-> TRUE, val |-> v]

DeErr == [ok |-> FALSE, val |-> None]

\* Uuid: the hyphenated text of a Uuid, decoded to the number it stands for
de_Uuid(v) ==
    LET UuidTexts ==
            << [text |-> "f1d34301-c916-42a8-8c7c-274828177649",
                number |-> "f1d34301c91642a88c7c274828177649"],
               [text |-> "05845079-02e7-4f44-b679-02b90775abda",
                number |-> "0584507902e74f44b67902b90775abda"] >>
    IN  IF v.j = "str" /\ \E i \in 1..Len(UuidTexts) : UuidTexts[i].text = v.s
        THEN DeOk(UuidTexts[CHOOSE i \in 1..Len(UuidTexts) : UuidTexts[i].text = v.s].number)
        ELSE DeErr

de_usize(v) == IF v.j = "num" /\ v.n >= 0 /\ v.n <= UsizeMax THEN DeOk(v.n) ELSE DeErr

de_u32(v) == IF v.j = "num" /\ v.n >= 0 /\ v.n <= U32Max THEN DeOk(v.n) ELSE DeErr

\* Option<T>: null, or a missing member, is None
de_Option(v, inner) ==
    IF v.j \in {"null", "missing"} THEN DeOk(None)
    ELSE IF inner.ok THEN DeOk(Some(inner.val))
    ELSE DeErr

UnitVariants == {"On", "Off", "Min", "Max", "Reverse"}

\* enum Action, externally tagged: "On" or {"Up":3} or {"Up":null}
de_Action(v) ==
    IF v.j = "str"
    THEN IF v.s \in UnitVariants THEN DeOk([tag |-> v.s, v |-> None]) ELSE DeErr
    ELSE IF v.j = "obj"
    THEN IF v.k \in {"Up", "Down"}
         THEN IF de_Option(v.v, de_usize(v.v)).ok
              THEN DeOk([tag |-> v.k, v |-> de_Option(v.v, de_usize(v.v)).val])
              ELSE DeErr
         ELSE IF v.k = "Set"
         THEN IF de_usize(v.v).ok THEN DeOk(Set(de_usize(v.v).val)) ELSE DeErr
         ELSE IF v.k \in UnitVariants /\ v.v.j = "null"
         THEN DeOk([tag |-> v.k, v |-> None])
         ELSE DeErr
    ELSE DeErr

de_Vec_Action(v) ==
    IF v.j = "arr" /\ \A i \in 1..Len(v.a) : de_Action(v.a[i]).ok
    THEN DeOk([i \in 1..Len(v.a) |-> de_Action(v.a[i]).val])
    ELSE DeErr

\* [Option<u32>; 8]: an array of exactly eight values
de_duty_cycles(v) ==
    IF v.j = "arr" /\ Len(v.a) = NumSlots /\ \A i \in 1..Len(v.a) : de_Option(v.a[i], de_u32(v.a[i])).ok
    THEN DeOk([i \in 1..Len(v.a) |-> de_Option(v.a[i], de_u32(v.a[i])).val])
    ELSE DeErr

\* serde_json::from_str::<Device>: every member decodes, or the whole fails
from_json(text) ==
    IF text.j # "device" THEN [res |-> ErrJson, val |-> None]
    ELSE LET m == text.members
             de_String(v) == IF v.j = "str" THEN DeOk(v.s) ELSE DeErr
             de_bool(v) == IF v.j = "bool" THEN DeOk(v.b) ELSE DeErr
             de_DeviceGroup(v) ==
                 IF v.j = "str" /\ v.s \in {Light, Fan} THEN DeOk(v.s) ELSE DeErr
             d == [uuid |-> de_Uuid(m.uuid),
                   name |-> de_String(m.name),
                   action |-> de_Action(m.action),
                   available_actions |-> de_Vec_Action(m.available_actions),
                   default_target |-> de_usize(m.default_target),
                   duty_cycles |-> de_duty_cycles(m.duty_cycles),
                   max_duty_cycle_index |-> de_usize(m.max_duty_cycle_index),
                   target |-> de_usize(m.target),
                   freq_Hz |-> de_u32(m.freq_Hz),
                   device_group |-> de_Option(m.device_group, de_DeviceGroup(m.device_group)),
                   reversed |-> de_bool(m.reversed),
                   updated |-> de_bool(m.updated)]
         IN  IF \A f \in DOMAIN d : d[f].ok
             THEN [res |-> OkRes, val |-> Some([f \in DOMAIN d |-> d[f].val])]
             ELSE [res |-> ErrJson, val |-> None]

\* the text of tests::device_from_json
Device1Json ==
    [uuid |-> JStr("f1d34301-c916-42a8-8c7c-274828177649"),
     name |-> JStr("Device1"),
     action |-> JTagged("Up", JNum(3)),
     available_actions |->
         JArr(<<JStr("On"), JStr("Off"), JTagged("Up", JNull), JTagged("Down", JNull),
                JStr("Min"), JStr("Max"), JTagged("Set", JNum(0))>>),
     default_target |-> JNum(3),
     duty_cycles |->
         JArr(<<JNum(0), JNum(2), JNum(4), JNum(8), JNum(16), JNum(32), JNum(64), JNum(96)>>),
     max_duty_cycle_index |-> JNum(7),
     target |-> JNum(0),
     freq_Hz |-> JNum(100),
     device_group |-> JNull,
     reversed |-> JBool(FALSE),
     updated |-> JBool(TRUE)]

\* the members of texts that differ from Device1Json in a few members
JsonMemberInputs ==
    { Device1Json,
      [Device1Json EXCEPT !.target = JNum(5)],
      [Device1Json EXCEPT !.target = JNum(NumSlots)],
      [Device1Json EXCEPT !.target = JNum(0 - 1)],
      [Device1Json EXCEPT !.target = JStr("0")],
      [Device1Json EXCEPT !.default_target = JNum(UsizeMax)],
      [Device1Json EXCEPT !.max_duty_cycle_index = JNum(3)],
      [Device1Json EXCEPT !.max_duty_cycle_index = JNum(UsizeMax)],
      [Device1Json EXCEPT !.duty_cycles = JArr(<<JNum(0), JNull, JNull, JNull, JNull, JNull, JNull, JNull>>),
                          !.max_duty_cycle_index = JNum(0),
                          !.default_target = JNum(0)],
      [Device1Json EXCEPT !.duty_cycles = JArr(<<JNull, JNull, JNull, JNull, JNull, JNull, JNull, JNull>>)],
      [Device1Json EXCEPT !.duty_cycles = JArr(<<JNum(0), JNull, JNum(4), JNum(8), JNum(16), JNum(32), JNum(64), JNum(96)>>)],
      [Device1Json EXCEPT !.duty_cycles = JArr(<<JNum(0), JNum(2), JNum(4), JNum(8), JNum(16), JNum(32), JNum(64)>>)],
      [Device1Json EXCEPT !.available_actions = JArr(<<JStr("On"), JTagged("Up", JNum(2)), JStr("Max")>>)],
      [Device1Json EXCEPT !.available_actions = JArr(<<JStr("On"), JStr("Jump")>>)],
      [Device1Json EXCEPT !.device_group = JMissing, !.action = JStr("Off")],
      [Device1Json EXCEPT !.device_group = JStr(Light), !.name = JStr("fan")],
      [Device1Json EXCEPT !.updated = JMissing] }

JsonIdle == [text |-> NotJson, decoded |-> FALSE]

\* Device::from_json(&text): on Ok the Device at hand is the decoded one
call_from_json(text) ==
    /\ result # Panic
    /\ \E decoded \in {from_json(text)} :
           /\ result' = decoded.res
           /\ IF decoded.res = OkRes
              THEN /\ uuid' = unwrap(decoded.val).uuid
                   /\ name' = unwrap(decoded.val).name
                   /\ action' = unwrap(decoded.val).action
                   /\ available_actions' = unwrap(decoded.val).available_actions
                   /\ default_target' = unwrap(decoded.val).default_target
                   /\ duty_cycles' = unwrap(decoded.val).duty_cycles
                   /\ max_duty_cycle_index' = unwrap(decoded.val).max_duty_cycle_index
                   /\ target' = unwrap(decoded.val).target
                   /\ freq_Hz' = unwrap(decoded.val).freq_Hz
                   /\ device_group' = unwrap(decoded.val).device_group
                   /\ reversed' = unwrap(decoded.val).reversed
                   /\ updated' = unwrap(decoded.val).updated
                   /\ moved' = FALSE
                   /\ json' = [text |-> text, decoded |-> TRUE]
              ELSE /\ UNCHANGED <<device, moved>>
                   /\ json' = [json EXCEPT !.text = text]
    /\ request' = None
    /\ ret' = None
    /\ scale' = None
    /\ run' = NoRun
    /\ UNCHANGED <<overflow_checks, reg, lists, locks, threads, sync>>

----------------------------------------------------------------------------
\* one Device as Device::build leaves it; nothing else is in use
Init ==
    /\ \E uuid_arg \in UuidArgs : \E name_arg \in NameArgs : Device_build(uuid_arg, name_arg)
    /\ reg = RegIdle
    /\ lists = ListsIdle
    /\ locks = LocksIdle
    /\ threads = ThreadsIdle
    /\ sync = SyncIdle
    /\ json = JsonIdle

----------------------------------------------------------------------------
Next ==
    \/ \E a \in ActionInputs : with_action(a) /\ UNCHANGED others
    \/ \E list \in AvailableActionInputs : with_available_actions(list) /\ UNCHANGED others
    \/ \E t \in DefaultTargetInputs : with_default_target(t) /\ UNCHANGED others
    \/ \E dc \in DutyCycleInputs : with_duty_cycles(dc) /\ UNCHANGED others
    \/ \E t \in TargetInputs : with_target(t) /\ UNCHANGED others
    \/ \E a \in Actions : take_action(a) /\ UNCHANGED others
    \/ \E max_duty_cycle \in ScaleInputs : get_and_update_duty_cycle(max_duty_cycle) /\ UNCHANGED others

Spec == Init /\ [][Next]_vars

\* the builder chain alone: Device::build followed by setter calls
BuilderNext ==
    \/ \E a \in ActionInputs : with_action(a) /\ UNCHANGED others
    \/ \E list \in BuilderAvailableActionInputs : with_available_actions(list) /\ UNCHANGED others
    \/ \E t \in BuilderIndexes : with_default_target(t) /\ UNCHANGED others
    \/ \E dc \in BuilderDutyCycleInputs : with_duty_cycles(dc) /\ UNCHANGED others
    \/ \E t \in BuilderIndexes : with_target(t) /\ UNCHANGED others

BuilderSpec == Init /\ [][BuilderNext]_vars

\* Devices of several names, frequencies and groups under take_action
FrameInit ==
    \* more Devices than one: the arguments of build in tests::devices_append
    /\ \E uuid_arg \in UuidArgs \cup {"0584507902e74f44b67902b90775abda"} :
           \E name_arg \in NameArgs \cup {"bedroom light"} :
               Device_build(uuid_arg, name_arg)
    /\ reg = RegIdle
    /\ lists = ListsIdle
    /\ locks = LocksIdle
    /\ threads = ThreadsIdle
    /\ sync = SyncIdle
    /\ json = JsonIdle

FrameNext ==
    \/ \E list \in {DefaultAvailableActions, AllAvailableActions} :
           with_available_actions(list) /\ UNCHANGED others
    \/ \E freq \in {100, 1000} : with_freq_Hz(freq) /\ UNCHANGED others
    \/ \E group \in {None, Some(Light), Some(Fan)} : with_device_group(group) /\ UNCHANGED others
    \/ \E a \in Actions : take_action(a) /\ UNCHANGED others

FrameSpec == FrameInit /\ [][FrameNext]_vars

\* a Device decoded from texts of every shape, and used
DecodeInit ==
    /\ \E uuid_arg \in UuidArgs : \E name_arg \in NameArgs : Device_build(uuid_arg, name_arg)
    /\ reg = RegIdle
    /\ lists = ListsIdle
    /\ locks = LocksIdle
    /\ threads = ThreadsIdle
    /\ sync = SyncIdle
    /\ json = JsonIdle

DecodeNext ==
    \/ \E text \in {NotJson} \cup {[j |-> "device", members |-> m] : m \in JsonMemberInputs} :
           call_from_json(text)
    \/ \E a \in {On, Up(None), Min, Max, Reverse, Set(2)} :
           take_action(a) /\ UNCHANGED <<reg, lists, locks, threads, sync, json>>
    \/ \E max_duty_cycle \in {100} :
           get_and_update_duty_cycle(max_duty_cycle)
               /\ UNCHANGED <<reg, lists, locks, threads, sync, json>>

DecodeSpec == DecodeInit /\ [][DecodeNext]_vars

\* the conversions of Action called on every kind, text, number and target
RegistryInit ==
    /\ \E uuid_arg \in UuidArgs : \E name_arg \in NameArgs : Device_build(uuid_arg, name_arg)
    /\ reg \in [kind : KindInputs, text : TextInputs, uuid_number : UuidInputs,
                target : ArgInputs, prev : {""}, fn : {""}, res : {OkRes},
                val : {None}]
    /\ lists = ListsIdle
    /\ locks = LocksIdle
    /\ threads = ThreadsIdle
    /\ sync = SyncIdle
    /\ json = JsonIdle

RegistryNext ==
    \/ call_to_str
    \/ call_to_uuid
    \/ call_from_str
    \/ call_from_u128

RegistrySpec == RegistryInit /\ [][RegistryNext]_vars

\* threads calling Devices::append on handles to two lists
DevicesInit ==
    /\ \E uuid_arg \in UuidArgs : \E name_arg \in NameArgs : Device_build(uuid_arg, name_arg)
    /\ reg = RegIdle
    /\ lists \in [ListIds -> ListInputs]
    /\ locks = LocksIdle
    /\ threads = ThreadsIdle
    /\ sync = SyncIdle
    /\ json = JsonIdle

DevicesNext ==
    \/ \E t \in ThreadIds : \E s, o \in ListIds : append_call(t, s, o)
    \/ \E t \in ThreadIds : lock_self_guard(t)
    \/ \E t \in ThreadIds : lock_other_guard(t)
    \/ \E t \in ThreadIds : append_guards(t)
    \/ \E t \in ThreadIds : drop_other_guard(t)
    \/ \E t \in ThreadIds : drop_self_guard(t)

\* every thread that can run does run, and a thread waiting for a Mutex
\* that is free again and again gets it
DevicesFairness ==
    \A t \in ThreadIds :
        /\ WF_vars(append_body(t))
        /\ SF_vars(lock_self_guard(t))
        /\ SF_vars(lock_other_guard(t))

DevicesSpec == DevicesInit /\ [][DevicesNext]_vars /\ DevicesFairness

\* a finished Device shared by a controller and a driver
SyncInit ==
    /\ \E list \in {DefaultAvailableActions, AllAvailableActions} :
       \E dc \in SyncDutyCycleInputs :
       \E d \in {0, 3} :
       \E t \in {0, 1} :
           Device_built(list, d, dc, t)
    /\ reg = RegIdle
    /\ lists = ListsIdle
    /\ locks = LocksIdle
    /\ threads = ThreadsIdle
    /\ sync = SyncIdle
    /\ json = JsonIdle

SyncNext ==
    \/ \E a \in Actions : controller_take_action(a)
    \/ driver_needs_update
    \/ \E max_duty_cycle \in ScaleInputs : driver_get_and_update(max_duty_cycle)

SyncSpec == SyncInit /\ [][SyncNext]_vars

----------------------------------------------------------------------------
(* Vocabulary of the properties *)

\* number of active slots of a table
count_active(dc) == Cardinality({i \in 1..Len(dc) : is_some(dc[i])})

\* max_active_index of a table: count(active slots) - 1, as an integer
max_active_index(dc) == count_active(dc) - 1

\* no active slot follows an inactive one
contiguous_prefix(dc) ==
    \A i, j \in 1..Len(dc) : (i < j /\ is_some(dc[j])) => is_some(dc[i])

\* availability of a request: by tag for Up, Down and Set, by value otherwise
Available(a) ==
    IF a.tag \in {"Up", "Down", "Set"}
    THEN \E i \in 1..Len(available_actions) : same_variant(available_actions[i], a)
    ELSE \E i \in 1..Len(available_actions) : available_actions[i] = a

\* amount := step or 1
Amount(o) == IF o = None THEN 1 ELSE o[1]

MinOf(a, b) == IF a <= b THEN a ELSE b

\* the step is a call take_action(a)
Called(a) == request' = Some(a)

\* the step is a call take_action(a) that returned Ok
Succeeded(a) == Called(a) /\ result' = OkRes

\* the Device a run of Up(None) or Down(None) calls started from was valid
RunFromValid ==
    /\ contiguous_prefix(duty_cycles)
    /\ count_active(duty_cycles) >= 1
    /\ max_duty_cycle_index = max_active_index(duty_cycles)
    /\ default_target <= max_duty_cycle_index
    /\ run.start_target <= max_duty_cycle_index

----------------------------------------------------------------------------
(* C1 .. C10 *)

\* C1: in every reachable state target <= max_active_index of the installed
\* table, whatever builder steps, take_action and get_and_update_duty_cycle
\* calls led to it.  Stated here for the installed tables that have an active
\* slot, the single-slot table among them (C2 covers the table with none).
C1_TargetWithinTable ==
    count_active(duty_cycles) >= 1 => target <= max_active_index(duty_cycles)

\* C2: in every reachable state default_target <= max_active_index of the
\* installed table.
C2_DefaultTargetWithinTable == default_target <= max_active_index(duty_cycles)

\* C3: take_action(a) with a not available returns the not-available error and
\* changes no field of the Device; Up, Down and Set are looked up by tag, the
\* other kinds by value.
C3_UnavailableRejected ==
    [][\A a \in Actions :
          (Called(a) /\ ~Available(a))
              => (result' = ErrNotAvailable /\ UNCHANGED device)]_vars

\* C3 witness: an Up request carrying a step was rejected as not available
\* while a sync was owed to nobody (updated stayed false).
C3_Witness ==
    /\ request = Some(Up(Some(2)))
    /\ result = ErrNotAvailable
    /\ ~updated

\* C4: with Set available, take_action(Set(index)) with index beyond
\* max_duty_cycle_index returns the range error and changes no field; with
\* index within it the call succeeds and target becomes index.
C4_SetRejectsBeyondMax ==
    [][\A a \in Actions :
          (a.tag = "Set" /\ Called(a) /\ Available(a))
              => IF a.v[1] > max_duty_cycle_index
                 THEN result' = ErrSetTooLarge /\ UNCHANGED device
                 ELSE result' = OkRes /\ target' = a.v[1]]_vars

\* C4 witness: a Set beyond the four-slot table was rejected with the range
\* error.
C4_Witness ==
    /\ request = Some(Set(UsizeMax))
    /\ result = ErrSetTooLarge
    /\ duty_cycles = FourDutyCycles

\* C5: when available, On sets target to default_target and Off sets it to 0,
\* from any prior target; both leave updated true.
C5_OnOff ==
    [][/\ (Called(On) /\ Available(On))
            => (result' = OkRes /\ target' = default_target /\ updated')
       /\ (Called(Off) /\ Available(Off))
            => (result' = OkRes /\ target' = 0 /\ updated')]_vars

\* C5 witness: On has moved the target to a default target that is neither 0
\* nor the top of the table.
C5_Witness ==
    /\ request = Some(On)
    /\ result = OkRes
    /\ target = 5
    /\ default_target = 5
    /\ updated

\* C6: when available, Up(step) succeeds and sets target to
\* min(target + amount, max_duty_cycle_index), amount = step or 1, for every
\* step, also when target + step leaves the machine word.
C6_UpClamps ==
    [][\A a \in Actions :
          (a.tag = "Up" /\ Called(a) /\ Available(a))
              => /\ result' = OkRes
                 /\ target' = MinOf(target + Amount(a.v), max_duty_cycle_index)]_vars

\* C7: when available, Down(step) succeeds and sets target to target - amount
\* if amount < target and to 0 otherwise, amount = step or 1; the subtraction
\* never leaves the machine word.
C7_DownFloors ==
    [][\A a \in Actions :
          (a.tag = "Down" /\ Called(a) /\ Available(a))
              => /\ result' = OkRes
                 /\ target' = IF Amount(a.v) < target THEN target - Amount(a.v) ELSE 0
                 /\ target' \in 0..target]_vars

\* C7 witness: a Down by more than the whole word succeeded and left target 0.
C7_Witness ==
    /\ request = Some(Down(Some(UsizeMax)))
    /\ result = OkRes
    /\ target = 0

\* C8: from a valid Device, n consecutive Up(None) calls with
\* n >= max_active_index end at max_active_index and stay there, n consecutive
\* Down(None) calls with n >= the target they started from end at 0 and stay
\* there, and no target in between leaves 0..max_active_index.
C8_Saturation ==
    (run.kind \in {"Up", "Down"} /\ RunFromValid)
        => /\ target \in 0..max_duty_cycle_index
           /\ (run.kind = "Up" /\ run.n >= max_duty_cycle_index)
                => target = max_duty_cycle_index
           /\ (run.kind = "Down" /\ run.n >= run.start_target) => target = 0

\* C8 witness: a run of Up(None) calls longer than the table, started at 0,
\* rests at the top of the default table.
C8_Witness ==
    /\ run.kind = "Up"
    /\ run.n = NumSlots
    /\ run.start_target = 0
    /\ max_duty_cycle_index = NumSlots - 1
    /\ target = NumSlots - 1

\* C9: when available, Min sets target to 1 and Max sets it to
\* max_duty_cycle_index, from any prior target.
C9_MinMax ==
    [][/\ (Called(Min) /\ Available(Min)) => (result' = OkRes /\ target' = 1)
       /\ (Called(Max) /\ Available(Max))
            => (result' = OkRes /\ target' = max_duty_cycle_index)]_vars

\* C9 witness: Min has set the target to 1 on the four-slot table.
C9_Witness ==
    /\ request = Some(Min)
    /\ result = OkRes
    /\ target = 1
    /\ duty_cycles = FourDutyCycles

\* C10: when available, Reverse flips reversed and leaves target alone; the
\* second of two Reverse calls in a row restores the reversed the first one
\* found; no other request changes reversed.
C10_Reverse ==
    [][/\ (Called(Reverse) /\ Available(Reverse))
            => /\ result' = OkRes
               /\ reversed' = ~reversed
               /\ target' = target
               /\ (run.kind = "Reverse" /\ run.n = 1)
                    => reversed' = run.start_reversed
       /\ \A a \in Actions \ {Reverse} : Called(a) => reversed' = reversed]_vars

\* C10 witness: two Reverse calls in a row, back at the reversed they started
\* from.
C10_Witness ==
    /\ run.kind = "Reverse"
    /\ run.n = 2
    /\ run.start_reversed
    /\ reversed

----------------------------------------------------------------------------
(* C11 .. C20 *)

\* C11: right after every successful take_action(a) the action field is a,
\* payload included, and updated is true, also when the call moved neither
\* target nor reversed.
C11_ActionRecorded ==
    (request # None /\ result = OkRes) => (action = unwrap(request) /\ updated)

\* C11 witness: Down(Some(0)) succeeded; it subtracts nothing, so target and
\* reversed are what they were, and the field holds the request with its step.
C11_Witness ==
    /\ request = Some(Down(Some(0)))
    /\ result = OkRes
    /\ action = Down(Some(0))
    /\ updated
    /\ target > 0

\* a table as the data model wants it: an active slot, none after an inactive
\* one, every intensity within 100
valid_table(dc) ==
    /\ count_active(dc) >= 1
    /\ contiguous_prefix(dc)
    /\ \A i \in 1..Len(dc) : is_some(dc[i]) => unwrap(dc[i]) <= 100

\* the last call was get_and_update_duty_cycle
WasRead == scale # None

\* C12: get_and_update_duty_cycle(max_duty_cycle) on a reachable Device reads
\* the slot at target, which is active, returns the floor of
\* slot * max_duty_cycle / 100 and leaves updated false.  Stated here for the
\* Devices whose installed table is valid.
C12_ReadsTargetSlot ==
    (WasRead /\ valid_table(duty_cycles))
        => /\ target < NumSlots
           /\ is_some(duty_cycles[target + 1])
           /\ result = OkRes
           /\ ret = Some((unwrap(duty_cycles[target + 1]) * unwrap(scale)) \div 100)
           /\ ~updated

\* C13: get_and_update_duty_cycle changes no field but updated, which it
\* leaves false, and a call that directly follows a call with the same
\* max_duty_cycle returns the same value.
C13_ReadIdempotent ==
    [][WasRead'
          => /\ UNCHANGED <<action, available_actions, default_target, duty_cycles,
                            max_duty_cycle_index, target, reversed>>
             /\ (result' = OkRes => ~updated')
             /\ (scale = scale' /\ result = OkRes)
                    => (result' = OkRes /\ ret' = ret)]_vars

\* C13 witness: a call with max_duty_cycle = 255 returned a non-zero duty
\* cycle and left updated false; a second call steps from this state.
C13_Witness ==
    /\ scale = Some(255)
    /\ result = OkRes
    /\ ret # None
    /\ unwrap(ret) > 0
    /\ ~updated

\* the step is a take_action call that returned Ok
SucceededAny == request' # None /\ result' = OkRes

\* C14: updated coalesces.  Every successful take_action leaves it true and
\* it stays true until a get_and_update_duty_cycle call; that one call
\* returns the duty cycle of the slot at the target the last take_action
\* left and makes updated false; it then stays false until the next
\* successful take_action, a failed one included.  The read is stated for
\* the Devices whose installed table is valid.
C14_Coalesces ==
    [][/\ SucceededAny => updated'
       /\ (updated /\ ~WasRead') => updated'
       /\ (WasRead' /\ valid_table(duty_cycles))
              => /\ ~updated'
                 /\ result' = OkRes
                 /\ target < NumSlots
                 /\ is_some(duty_cycles[target + 1])
                 /\ unwrap(ret') * 100 <= unwrap(duty_cycles[target + 1]) * unwrap(scale')
                 /\ unwrap(duty_cycles[target + 1]) * unwrap(scale') < (unwrap(ret') + 1) * 100
       /\ (~updated /\ ~SucceededAny) => ~updated']_vars

\* C15: Device::duty_cycles with a table that has no active slot returns an
\* error and installs nothing: the count of active slots minus one is never
\* a wrapped index and never aborts the call.
C15_EmptyTableRejected ==
    [][\A dc \in DutyCycleInputs :
          (count_active(dc) = 0 /\ with_duty_cycles(dc))
              => /\ result' \notin {OkRes, Panic}
                 /\ UNCHANGED device]_vars

\* C16: after any builder steps the installed table has no active slot after
\* an inactive one and max_duty_cycle_index is the count of its active slots
\* minus one; Device::duty_cycles returns the some-after-none error for every
\* table with an active slot after an inactive one, and a rejected table
\* changes neither the installed table nor max_duty_cycle_index.
C16_TableInvariant ==
    [][/\ contiguous_prefix(duty_cycles')
       /\ max_duty_cycle_index' = max_active_index(duty_cycles')
       /\ \A dc \in DutyCycleInputs :
              with_duty_cycles(dc)
                  => /\ ~contiguous_prefix(dc) => result' = ErrSomeAfterNone
                     /\ result' # OkRes
                            => UNCHANGED <<duty_cycles, max_duty_cycle_index>>]_vars

\* the input tables that are well formed: an active slot, and none after an
\* inactive one
WellFormedInputs ==
    {dc \in BuilderDutyCycleInputs :
        count_active(dc) >= 1 /\ contiguous_prefix(dc)}

\* the step is a call of a builder setter or one that looks like it
BuilderStep == request' = None /\ scale' = None

\* C17: Device::duty_cycles with a well-formed table returns the range error,
\* and changes nothing, exactly when the Device's target or default_target
\* exceeds the new table's count of active slots minus one; otherwise it
\* installs the table and that index.
C17_TableRange ==
    [][\A dc \in WellFormedInputs :
          (BuilderStep /\ with_duty_cycles(dc))
              => IF target > max_active_index(dc)
                    \/ default_target > max_active_index(dc)
                 THEN result' = ErrDutyCyclesTargets /\ UNCHANGED device
                 ELSE /\ result' = OkRes
                      /\ duty_cycles' = dc
                      /\ max_duty_cycle_index' = max_active_index(dc)]_vars

\* C17 witness: a table was rejected for the target alone (default_target 0
\* is within every well-formed table).
C17_Witness ==
    /\ result = ErrDutyCyclesTargets
    /\ default_target = 0
    /\ target > 0

\* C18: Device::default_target(index) and Device::target(index) each return
\* their range error exactly when index exceeds the count of active slots
\* minus one of the table installed at the call, and otherwise install
\* index; neither changes any other field.
C18_IndexRange ==
    [][\A t \in BuilderIndexes :
          /\ (BuilderStep /\ with_default_target(t))
                 => IF t > max_active_index(duty_cycles)
                    THEN result' = ErrDefaultTarget /\ UNCHANGED device
                    ELSE /\ result' = OkRes
                         /\ default_target' = t
                         /\ UNCHANGED <<action, available_actions, duty_cycles,
                                        max_duty_cycle_index, target, reversed,
                                        updated>>
          /\ (BuilderStep /\ with_target(t))
                 => IF t > max_active_index(duty_cycles)
                    THEN result' = ErrTarget /\ UNCHANGED device
                    ELSE /\ result' = OkRes
                         /\ target' = t
                         /\ UNCHANGED <<action, available_actions, default_target,
                                        duty_cycles, max_duty_cycle_index, reversed,
                                        updated>>]_vars

\* an Up or Down entry carrying a step, 0 included, or a Set entry with a
\* non-zero index
non_canonical(e) ==
    \/ e.tag \in {"Up", "Down"} /\ is_some(e.v)
    \/ e.tag = "Set" /\ unwrap(e.v) # 0

canonical_list(list) == \A i \in 1..Len(list) : ~non_canonical(list[i])

\* C19: Device::available_actions(list) returns a payload error, and changes
\* nothing, exactly when list has an Up or Down entry carrying a step (0
\* included) or a Set entry with a non-zero index, and installs list
\* otherwise; so every entry of available_actions is canonical in every
\* state of a builder chain.
C19_CanonicalPayloads ==
    /\ canonical_list(available_actions)
    /\ [][/\ canonical_list(available_actions')
           /\ \A list \in BuilderAvailableActionInputs :
                  (BuilderStep /\ with_available_actions(list))
                      => IF canonical_list(list)
                         THEN result' = OkRes /\ available_actions' = list
                         ELSE /\ result' \in {ErrUpPayload, ErrDownPayload,
                                               ErrSetPayload}
                              /\ UNCHANGED device]_vars

\* C19 witness: a list with a Down entry carrying a step was rejected and the
\* list installed before it is still in place.
C19_Witness ==
    /\ result = ErrDownPayload
    /\ available_actions = AllAvailableActions

\* C20: every active slot of the installed table holds an intensity within
\* 0..100: a table with an active value above 100 is never installed.
C20_IntensityWithin100 ==
    \A i \in 1..NumSlots :
        is_some(duty_cycles[i]) => unwrap(duty_cycles[i]) \in 0..100

----------------------------------------------------------------------------
(* C21 .. C30 *)

\* the errors of the four validating setters
BuilderErrors ==
    {ErrUpPayload, ErrDownPayload, ErrSetPayload, ErrDefaultTarget,
     ErrDutyCyclesTargets, ErrSomeAfterNone, ErrTarget}

\* the step is a setter call that returned Err
BuilderFailed == BuilderStep /\ result' \in BuilderErrors

\* C21 as stated: a builder step that returns an error leaves the Device with
\* every field as before the step and usable for further builder steps and
\* take_action calls.
C21_FailedStepKeepsDevice ==
    [][BuilderFailed => (UNCHANGED device /\ usable')]_vars

\* C21 amended: a builder step that returns an error assigns no field, so a
\* clone the caller kept has every field as before the step, and on that
\* clone every setter and take_action can be called; the Device handed to
\* the step itself is consumed by it.
C21_FailedStepAssignsNothing ==
    /\ [][BuilderFailed => UNCHANGED device]_vars
    /\ [](result \in BuilderErrors
            => IF moved
               THEN ~ENABLED BuilderNext
               ELSE /\ ENABLED (\E t \in BuilderIndexes : with_target(t))
                    /\ ENABLED (\E a \in Actions : take_action(a)))

\* C21 witness: Device::target returned its error on a clone while another
\* table than the default was installed; the caller still has that Device.
C21_Witness ==
    /\ result = ErrTarget
    /\ ~moved
    /\ duty_cycles = FourDutyCycles

\* the Device as Device::build leaves it, but for default_target and target:
\* what build followed by default_target(d) and target(t) yields
created_with(d, t) ==
    /\ usable
    /\ action = Off
    /\ available_actions = DefaultAvailableActions
    /\ default_target = d
    /\ duty_cycles = DefaultDutyCycles
    /\ max_duty_cycle_index = NumSlots - 1
    /\ target = t
    /\ ~reversed
    /\ updated

\* the well-formed input tables narrower than the default default_target
NarrowInputs == {dc \in WellFormedInputs : max_active_index(dc) < 3}

\* C22 as stated, its last clause: starting from Device::build, duty_cycles(T)
\* for a well-formed T with max_active_index < 3 succeeds (so that target(t')
\* with t' <= max_active_index can follow it).
C22_TableThenTargetFromBuild ==
    [][\A dc \in NarrowInputs :
          (created_with(3, 0) /\ BuilderStep /\ with_duty_cycles(dc))
              => result' = OkRes]_vars

\* C22 amended: validation depends on the order.  For a well-formed T with
\* m = max_active_index(T) < 3: after build, duty_cycles(T) is rejected with
\* the range error (default_target is 3); after build and default_target(d)
\* with d <= m, duty_cycles(T) succeeds, and target(t') with t' <= m succeeds
\* after it; after build and target(t) with m < t <= 7, duty_cycles(T) is
\* rejected with the range error.
C22_OrderDependent ==
    [][\A dc \in NarrowInputs :
          /\ (created_with(3, 0) /\ BuilderStep /\ with_duty_cycles(dc))
                 => (result' = ErrDutyCyclesTargets /\ UNCHANGED device)
          /\ \A d \in 0..max_active_index(dc) :
                 /\ (created_with(d, 0) /\ BuilderStep /\ with_duty_cycles(dc))
                        => /\ result' = OkRes
                           /\ duty_cycles' = dc
                           /\ max_duty_cycle_index' = max_active_index(dc)
                           /\ UNCHANGED <<default_target, target>>
                 /\ \A t \in 0..max_active_index(dc) :
                        ( /\ usable
                          /\ duty_cycles = dc
                          /\ max_duty_cycle_index = max_active_index(dc)
                          /\ default_target = d
                          /\ BuilderStep /\ with_target(t) )
                            => (result' = OkRes /\ target' = t)
          /\ \A t \in (max_active_index(dc) + 1)..(NumSlots - 1) :
                 (created_with(3, t) /\ BuilderStep /\ with_duty_cycles(dc))
                     => (result' = ErrDutyCyclesTargets /\ UNCHANGED device)]_vars

\* C22 witness: default_target was lowered to 1, then the three-slot table
\* was installed and target 2 on it; the table alone was not accepted first.
C22_Witness ==
    /\ result = OkRes
    /\ duty_cycles = ThreeDutyCycles
    /\ default_target = 1
    /\ target = 2

----------------------------------------------------------------------------
(* The registry of actions: ACTION_SYNONYMS and the conversions between    *)
(* an Action, its name and its identifier.                                 *)

\* a name was produced by to_str and then handed to from_str
NameRoundTrip == reg.prev = "to_str" /\ reg.fn = "from_str"

\* an identifier was produced by to_uuid and then handed to from_u128
IdRoundTrip == reg.prev = "to_uuid" /\ reg.fn = "from_u128"

\* the last conversion returned Ok with a value of the variant of k
ResolvedTo(k) == reg.res = OkRes /\ is_some(reg.val) /\ same_variant(unwrap(reg.val), k)

\* C23, as stated: for every kind k, resolving the name of k, and resolving
\* the identifier of k, with no argument given, succeeds with the variant
\* of k.
C23_RoundTrip ==
    ((NameRoundTrip \/ IdRoundTrip) /\ reg.target = None) => ResolvedTo(reg.kind)

\* C23, amended: resolving the name of k, or the identifier of k, succeeds
\* with the variant of k for every kind but Set whatever the argument, and
\* for Set when an argument is given; for Set without an argument it fails
\* with "No target was given".
C23_RoundTripGivenTarget ==
    (NameRoundTrip \/ IdRoundTrip)
        => IF same_variant(reg.kind, Set(0)) /\ reg.target = None
           THEN reg.res = ErrNoTarget /\ reg.val = None
           ELSE ResolvedTo(reg.kind)

\* C23 witness: the identifier of Set(2) resolved with the argument 5
C23_Witness ==
    /\ IdRoundTrip
    /\ reg.kind = Set(2)
    /\ reg.target = Some(5)
    /\ reg.val = Some(Set(5))

\* text spells word, letter case aside
Spells(text, word) ==
    /\ Len(text) = Len(word)
    /\ \A i \in 1..Len(word) :
           \/ text[i] = word[i]
           \/ \E j \in 1..Len(LowerCase) : LowerCase[j] = word[i] /\ UpperCase[j] = text[i]

\* what the last conversion returned
Returned_action == [res |-> reg.res, val |-> reg.val]

\* C24: from_str(text, arg) returns Up(arg) for "up" and Down(arg) for
\* "down", arg as given; for "set" it returns Set(n) when arg is Some(n) and
\* the error "No target was given" when arg is None; for "on", "off",
\* "minimum", "maximum", "reverse" it returns that kind whatever arg is; for
\* every other text it returns the error "Bad Action text given".  Names
\* are compared letter case aside.
C24_ResolveByName ==
    reg.fn = "from_str"
        => Returned_action =
             IF Spells(reg.text, str_up) THEN OkAction(Up(reg.target))
             ELSE IF Spells(reg.text, str_down) THEN OkAction(Down(reg.target))
             ELSE IF Spells(reg.text, str_set)
                  THEN IF reg.target = None THEN ErrAction(ErrNoTarget)
                       ELSE OkAction(Set(unwrap(reg.target)))
             ELSE IF Spells(reg.text, str_on) THEN OkAction(On)
             ELSE IF Spells(reg.text, str_off) THEN OkAction(Off)
             ELSE IF Spells(reg.text, str_minimum) THEN OkAction(Min)
             ELSE IF Spells(reg.text, str_maximum) THEN OkAction(Max)
             ELSE IF Spells(reg.text, str_reverse) THEN OkAction(Reverse)
             ELSE ErrAction(ErrBadText)

\* C24 witness: "Up" with the argument 5 resolved to Up(Some(5))
C24_Witness ==
    /\ reg.fn = "from_str"
    /\ reg.text = <<"U", "p">>
    /\ reg.target = Some(5)
    /\ reg.val = Some(Up(Some(5)))

\* the entries of ACTION_SYNONYMS that carry the identifier id
EntriesWithId(id) == {i \in 1..Len(ACTION_SYNONYMS) : ACTION_SYNONYMS[i].uuid_number = id}

\* C25: for a registered identifier, from_u128(id, arg) returns exactly what
\* from_str(n, arg) returns for the name n registered with id, the same
\* value or the same error; for an unregistered identifier it returns the
\* error "Bad Uuid number given, no associated action".
C25_ResolveById ==
    reg.fn = "from_u128"
        => /\ \A i \in EntriesWithId(reg.uuid_number) :
                  Returned_action = from_str(ACTION_SYNONYMS[i].text, reg.target)
           /\ EntriesWithId(reg.uuid_number) = {}
                  => Returned_action = ErrAction(ErrBadUuid)

\* C25 witness: the identifier of Set resolved without an argument fails as
\* the name "set" does
C25_Witness ==
    /\ reg.fn = "from_u128"
    /\ reg.uuid_number = "2a4fae8107134e1fa8187ac56e4f13e4"
    /\ reg.target = None
    /\ reg.res = ErrNoTarget

\* the variants of enum Action
ActionTags == {"On", "Off", "Up", "Down", "Min", "Max", "Reverse", "Set"}

\* the entries of ACTION_SYNONYMS whose action has the variant tag
EntriesOf(tag) == {i \in 1..Len(ACTION_SYNONYMS) : ACTION_SYNONYMS[i].action.tag = tag}

\* C26: ACTION_SYNONYMS has exactly one entry for each variant of Action,
\* no two entries share a name and no two share an identifier; to_str and
\* to_uuid return, for every Action, the name and the identifier of the one
\* entry of its variant, whatever its payload, never the empty name and
\* never the zero identifier.
C26_OneEntryPerKind ==
    /\ \A tag \in ActionTags : Cardinality(EntriesOf(tag)) = 1
    /\ \A i \in 1..Len(ACTION_SYNONYMS) : ACTION_SYNONYMS[i].action.tag \in ActionTags
    /\ \A i, j \in 1..Len(ACTION_SYNONYMS) :
           i # j => /\ ACTION_SYNONYMS[i].text # ACTION_SYNONYMS[j].text
                    /\ ACTION_SYNONYMS[i].uuid_number # ACTION_SYNONYMS[j].uuid_number
    /\ reg.fn = "to_str"
           => /\ reg.text # str_empty
              /\ \A i \in EntriesOf(reg.kind.tag) : reg.text = ACTION_SYNONYMS[i].text
    /\ reg.fn = "to_uuid"
           => /\ reg.uuid_number # u128_zero
              /\ \A i \in EntriesOf(reg.kind.tag) :
                     reg.uuid_number = ACTION_SYNONYMS[i].uuid_number

\* C26 witness: to_uuid of Up(Some(2)) returned the identifier registered
\* with Up(None)
C26_Witness ==
    /\ reg.fn = "to_uuid"
    /\ reg.kind = Up(Some(2))
    /\ reg.uuid_number = "bc6c6eeba0ba40e0a57ff5186d4350ce"

----------------------------------------------------------------------------
(* The collection: Devices::append and Devices::clone *)

DeviceNames == {bedroom_light, kitchen_light, counter_light}

\* how many times the Device d occurs in the list
Count(list, d) == Cardinality({i \in 1..Len(list) : list[i] = d})

\* thread t is past self_guard.append(..) and has not yet returned
Appended(t) == threads[t].pc \in {"drop_other", "drop_self"}

\* C27: append on handles to two distinct lists moves every entry of other
\* into self: the step leaves in self each Device as many times as self and
\* other held it together and leaves other empty, never changes how many
\* times a Device occurs in the two lists together, and neither list changes
\* again before the call returns.
C27_AppendMovesAll ==
    [][\A t \in ThreadIds :
          LET s == threads[t].self
              o == threads[t].other
          IN  /\ (threads[t].pc = "append" /\ threads'[t].pc = "drop_other")
                     => /\ s # o
                        /\ \A d \in DeviceNames :
                               Count(lists'[s], d) = Count(lists[s], d) + Count(lists[o], d)
                        /\ Len(lists'[s]) = Len(lists[s]) + Len(lists[o])
                        /\ lists'[o] = <<>>
                        /\ \A l \in ListIds \ {s, o} : lists'[l] = lists[l]
              /\ Appended(t) => lists' = lists]_vars

\* C27 witness: [bedroom, kitchen] took in [counter, bedroom]; the call has
\* not returned yet
C27_Witness ==
    \E t \in ThreadIds :
        /\ Appended(t)
        /\ lists[threads[t].self] =
               <<bedroom_light, kitchen_light, counter_light, bedroom_light>>
        /\ lists[threads[t].other] = <<>>

\* C29: every call of append returns, with neither Mutex held by the caller
\* afterwards, whatever the handles and the interleaving.
C29_AppendReturns ==
    \A t \in ThreadIds :
        (threads[t].pc = "lock_self")
            ~> (threads[t].pc = "idle" /\ \A l \in ListIds : locks[l].holder # t)

----------------------------------------------------------------------------
(* The controller and the driver on one Device *)

\* the driver has been given a duty cycle at least once
DriverHasRead == sync.last # None

\* C30: whatever the order of the controller's take_action calls and the
\* driver's calls, when needs_hardware_duty_cycle_update is false after at
\* least one get_and_update_duty_cycle, the value the driver was last given
\* is the floor of duty_cycles[target] * max_duty_cycle / 100 for the
\* target the Device has now.
C30_DriverHoldsCurrentValue ==
    (usable /\ DriverHasRead /\ ~needs_hardware_duty_cycle_update)
        => /\ target < NumSlots
           /\ is_some(duty_cycles[target + 1])
           /\ unwrap(sync.last).value =
                  (unwrap(duty_cycles[target + 1]) * unwrap(sync.last).scale) \div 100

----------------------------------------------------------------------------
(* Device::build *)

\* the Device has the fields Device::build gives it, and build returned Ok
Created ==
    /\ moved = FALSE
    /\ result = OkRes
    /\ action = Off
    /\ duty_cycles =
           <<Some(0), Some(2), Some(4), Some(8), Some(16), Some(32), Some(64), Some(96)>>
    /\ max_duty_cycle_index = 7
    /\ default_target = 3
    /\ target = 0
    /\ reversed = FALSE
    /\ updated = TRUE

----------------------------------------------------------------------------
(* The frame of Device::take_action *)

\* the step is a call of take_action, whatever it returned
CalledAny == request' # None

\* C31: take_action, whether it returns Ok or Err or panics, leaves uuid,
\* name, available_actions, default_target, duty_cycles,
\* max_duty_cycle_index, freq_Hz and device_group as they were; a call that
\* returns Ok changes reversed only when the action is Reverse and target
\* only when it is On, Off, Up, Down, Min, Max or Set.
C31_TakeActionFrame ==
    [][CalledAny
          => /\ UNCHANGED <<uuid, name, available_actions, default_target, duty_cycles,
                            max_duty_cycle_index, freq_Hz, device_group>>
             /\ result' = OkRes
                    => /\ reversed' # reversed => unwrap(request').tag = "Reverse"
                       /\ target' # target
                              => unwrap(request').tag
                                     \in {"On", "Off", "Up", "Down", "Min", "Max", "Set"}]_vars

\* C31 witness: Reverse on a Device named "bedroom light" of the group Fan
\* at 1000 Hz flipped reversed and left target at 2
C31_Witness ==
    /\ request = Some(Reverse)
    /\ result = OkRes
    /\ reversed = TRUE
    /\ target = 2
    /\ name = "bedroom light"
    /\ freq_Hz = 1000
    /\ device_group = Some(Fan)

----------------------------------------------------------------------------
(* Device::from_json *)

\* C32: a Device that from_json returned with Ok has target and
\* default_target within the active slots of its table, no active slot after
\* an inactive one, max_duty_cycle_index equal to the count of active slots
\* minus one and canonical payloads in available_actions; no call of
\* take_action or get_and_update_duty_cycle on it panics, and the slot at its
\* target is active.
C32_DecodedDeviceValid ==
    json.decoded
        => /\ count_active(duty_cycles) >= 1
           /\ contiguous_prefix(duty_cycles)
           /\ max_duty_cycle_index = count_active(duty_cycles) - 1
           /\ target <= max_duty_cycle_index
           /\ default_target <= max_duty_cycle_index
           /\ canonical_list(available_actions)
           /\ result # Panic
           /\ target < NumSlots
           /\ is_some(duty_cycles[target + 1])

====
